---- MODULE Spec2Model ----
(***************************************************************************)
(* Resumable Jira fetch pipeline: Scraper.run_project (src/src/scraper.py), *)
(* the checkpoint file helpers (src/src/utils.py) and the entry point      *)
(* (src/main.py), modelled as one sequential process that can be killed at *)
(* any step and started again on the files it left behind.                 *)
(***************************************************************************)
EXTENDS Integers, Sequences, FiniteSets, TLC

\* ------------------------------------------------------------------ bounds
MaxRemote == 3      \* longest remote result list of a project
MaxKeyless == 1     \* most summaries of a remote list that carry no key
MaxBatch == 2       \* largest --batch-size
MaxLimit == 2       \* largest --limit below the surplus request
MaxPending == 4     \* cap on an accumulated pending count
MaxRev == 2         \* revisions a remote document goes through
Surplus == 10       \* a --limit of K + Surplus on a remote list of K records
MaxTwo == 1         \* longest remote list where two projects are run

\* ------------------------------------------------------- program constants
NoCap == -1         \* max_issues=None
NoKey == 0          \* a summary whose "key" is missing

\* The projects that have a folder and a checkpoint entry of their own, and the
\* list main() is given where one project is run.
AllOrder == <<"DEMO", "DEMO2">>
Projects == {AllOrder[i] : i \in DOMAIN AllOrder}
ProjOrder == <<"DEMO">>
Listed == {ProjOrder[i] : i \in DOMAIN ProjOrder}

\* The remote list of the DEMO scenario: five records, each with its key.
DemoRemote == <<1, 2, 3, 4, 5>>
Keys == (1..MaxRemote) \cup {DemoRemote[i] : i \in DOMAIN DemoRemote}

Min(a, b) == IF a < b THEN a ELSE b
Max(a, b) == IF a > b THEN a ELSE b

\* ---------------------------------------------------------- files and JSON
\* A file is [exists, text]; a text is a sequence of tokens, so that a write
\* cut short leaves a proper prefix of the text it was writing.
NoFile == [exists |-> FALSE, text |-> <<>>]
TokOpen == [t |-> "open"]
TokClose == [t |-> "close"]
TokEntry(k, v) == [t |-> "entry", k |-> k, v |-> v]

EmptyMap == [x \in {} |-> x]

\* json.dumps of a mapping: "{", one entry per key, "}".
DumpsOver(order, m) ==
    LET ks == SelectSeq(order, LAMBDA k : k \in DOMAIN m)
    IN  <<TokOpen>> \o [i \in 1..Len(ks) |-> TokEntry(ks[i], m[ks[i]])] \o <<TokClose>>

Dumps(m) == DumpsOver(AllOrder, m)

\* A text that is JSON but no mapping, and bytes that do not decode.
JsonArray == <<[t |-> "array"]>>
Undecodable == <<[t |-> "undecodable"]>>

\* lines 20-22: the text decodes, json.loads succeeds on it (a complete text
\* only) and gives a mapping.
WellFormed(text) ==
    /\ Len(text) >= 2
    /\ text[1].t = "open"
    /\ text[Len(text)].t = "close"
    /\ \A i \in 2..(Len(text) - 1) : text[i].t = "entry"

Parse(text) ==
    LET ix == 2..(Len(text) - 1)
    IN  [k \in {text[i].k : i \in ix} |-> text[CHOOSE i \in ix : text[i].k = k].v]

\* utils.load_state: {} when the file is missing or does not parse.
LoadSalvaged(file) ==
    IF ~file.exists THEN EmptyMap
    ELSE LET ix == {i \in DOMAIN file.text : file.text[i].t = "entry"}
         IN  [k \in {file.text[i].k : i \in ix} |->
                 file.text[CHOOSE i \in ix : file.text[i].k = k].v]

load_state(file) ==
    IF ~file.exists THEN EmptyMap
    ELSE IF WellFormed(file.text) THEN Parse(file.text)
    ELSE EmptyMap

Truncations(text) == {SubSeq(text, 1, n) : n \in 0..(Len(text) - 1)}

\* utils.atomic_write, line 10: tmp.write_text(data).  The outcomes are the
\* completed write (done) and every write cut short by the process dying.
NonAtomicWriteText(tmp, target, data) ==
    {[tmp |-> tmp, target |-> [exists |-> TRUE, text |-> data], done |-> TRUE]}
    \cup {[tmp |-> tmp, target |-> [exists |-> TRUE, text |-> t], done |-> FALSE]
            : t \in Truncations(data)}

AtomicWriteText(tmp, target, data) ==
    {[tmp |-> [exists |-> TRUE, text |-> data], target |-> target, done |-> TRUE]}
    \cup {[tmp |-> [exists |-> TRUE, text |-> t], target |-> target, done |-> FALSE]
            : t \in Truncations(data)}

\* utils.atomic_write, line 11: tmp.replace(path), one rename.
AtomicReplace(tmp, target) ==
    IF tmp.exists THEN [tmp |-> NoFile, target |-> tmp]
    ELSE [tmp |-> tmp, target |-> target]

\* utils.save_state: the text handed to atomic_write.
save_state_text(state) == Dumps(state)

\* ---------------------------------------------------------- transformer.py
\* Python's None, for a missing or null member of a raw issue document.
None == "<None>"

\* A raw issue document: its id, its key, and of its "fields" the summary, the
\* description and the name of the issue type.
RawIssues ==
    [id : {None, "10001", "10002"},
     key : {None, "TEST-1", "TEST-2"},
     summary : {None, "", "Test issue"},
     description : {None, "<p>This is a test</p>"},
     issuetype : {None, "Bug"}]

NoIssue ==
    [id |-> None, key |-> None, summary |-> None, description |-> None,
     issuetype |-> None]

NoRecord ==
    [id |-> None, key |-> None, title |-> None, description |-> None,
     classification |-> None]

\* `x or d`: d when x is None or the empty string.
Or(x, d) == IF x = None \/ x = "" THEN d ELSE x

\* transform_issue, lines 25-44
transform_issue(issue) ==
    [id |-> issue.id,
     key |-> issue.key,
     title |-> Or(issue.summary, ""),
     description |-> Or(issue.description, ""),
     classification |-> Or(issue.issuetype, "Unknown")]

\* ------------------------------------------------------- checkpoint entries
DefaultEntry ==
    [start_at |-> 0, pending |-> 0, total_fetched |-> 0, last_status |-> "unknown"]

\* Scraper._ensure_project_state
EnsureProjectState(st, p) ==
    IF p \in DOMAIN st THEN st
    ELSE [q \in DOMAIN st \cup {p} |-> IF q = p THEN DefaultEntry ELSE st[q]]

\* self.state[project] updated with the locals and a status
WithEntry(st, p, s, pe, tf, status) ==
    [st EXCEPT ![p] = [start_at |-> s, pending |-> pe,
                       total_fetched |-> tf, last_status |-> status]]

\* json.dumps(full) of a fetched document
NoDoc == [key |-> NoKey, rev |-> 0]
DumpsDoc(d) == <<TokOpen, TokEntry("key", d.key), TokEntry("rev", d.rev), TokClose>>

\* ------------------------------------------------------------------- state
VARIABLES
    stateFile, stateTmp,      \* state/checkpoints.json and its .tmp sibling
    rawFile, rawTmp,          \* outputs/raw/<project>/<key>.json and .json.tmp
    remote, remoteRev,        \* the remote lists (fixed order) and document revision
    pc, ret,                  \* position of the process; continuation of a save
    projects, projIdx,        \* Scraper.projects and the loop index of Scraper.run
    limitArg, batch_size, max_issues,
    state,                    \* Scraper.state
    project, start_at, pending, total_fetched, unlimited_mode,
    effective_batch, issues, to_process, idx, full,
    listLog, fetchLog, created, erred, outcome,   \* this invocation, as observed
    inv, prev,                                    \* how it began; the process before
    tries, met, result,       \* one JiraClient._get call: attempts made, what
                              \* each session.get met, how the call stands
    issue_data, record,       \* transform_issue: its argument, what it returned
    workers                   \* concurrent workers: each its Scraper and locals

disk == <<stateFile, stateTmp, rawFile, rawTmp>>
client == <<tries, met, result>>
transformer == <<issue_data, record>>
env == <<remote, remoteRev, client, transformer, workers>>
args == <<projects, limitArg, batch_size, max_issues>>
locals == <<project, start_at, pending, total_fetched, unlimited_mode,
            effective_batch, issues, to_process, idx, full>>
obs == <<listLog, fetchLog, created, erred, outcome, inv>>
vars == <<disk, env, pc, ret, args, projIdx, state, locals, obs, prev>>

\* Two workers, worker w running the w-th project; a worker that has not begun.
Workers == DOMAIN AllOrder

NoWorker ==
    [pc |-> "new", ret |-> "none", add |-> 0, state |-> EmptyMap,
     project |-> "none", start_at |-> 0, pending |-> 0, total_fetched |-> 0,
     unlimited_mode |-> FALSE]

\* Remote lists: record i carries key i, or no key at all.
RemoteLists ==
    {r \in UNION {[1..n -> {NoKey} \cup (1..MaxRemote)] : n \in 0..MaxRemote} :
        /\ \A i \in DOMAIN r : r[i] \in {NoKey, i}
        /\ Cardinality({i \in DOMAIN r : r[i] = NoKey}) <= MaxKeyless}

ProjectLists == {ProjOrder}

\* How an invocation began: the persisted entry, whether the store held nothing
\* at or beyond the cursor with nothing pending (clean), whether there was no
\* entry and no artifact at all (fresh).
NoInv == [proj |-> "none", pend0 |-> 0, cur0 |-> 0, tot0 |-> 0,
          clean |-> FALSE, fresh |-> FALSE]
\* What is remembered of the process before, when it was killed: whether inside
\* a checkpoint save and, for a --limit N > 0 added to a pending count of 0,
\* where (phase), N, the number of artifacts it had created, and whether its
\* invocation began clean.
NoPrev == [phase |-> "none", saving |-> FALSE, add |-> 0, new |-> 0, clean |-> FALSE]

InitProcess ==
    /\ pc = "off" /\ ret = "none"
    /\ projects = <<>> /\ projIdx = 0
    /\ limitArg = 0 /\ batch_size = 0 /\ max_issues = NoCap
    /\ state = EmptyMap
    /\ project = "none" /\ start_at = 0 /\ pending = 0 /\ total_fetched = 0
    /\ unlimited_mode = FALSE /\ effective_batch = 0
    /\ issues = <<>> /\ to_process = <<>> /\ idx = 0 /\ full = NoDoc
    /\ listLog = <<>> /\ fetchLog = <<>> /\ created = {} /\ erred = "none"
    /\ outcome = "none" /\ inv = NoInv /\ prev = NoPrev
    /\ tries = 0 /\ met = <<>> /\ result = "none"
    /\ issue_data = NoIssue /\ record = NoRecord
    /\ workers = [w \in Workers |-> NoWorker]

Init ==
    /\ stateFile = NoFile /\ stateTmp = NoFile
    /\ rawFile = [p \in Projects |-> [k \in Keys |-> NoFile]]
    /\ rawTmp = [p \in Projects |-> [k \in Keys |-> NoFile]]
    /\ remote \in {r \in [Projects -> RemoteLists] :
                        \A q \in Projects \ Listed : r[q] = <<>>}
    /\ remoteRev = 1
    /\ InitProcess

\* The memory of a process that is not running.
MemoryGone ==
    /\ ret' = "none"
    /\ projects' = <<>> /\ projIdx' = 0
    /\ limitArg' = 0 /\ batch_size' = 0 /\ max_issues' = NoCap
    /\ state' = EmptyMap
    /\ project' = "none" /\ start_at' = 0 /\ pending' = 0 /\ total_fetched' = 0
    /\ unlimited_mode' = FALSE /\ effective_batch' = 0
    /\ issues' = <<>> /\ to_process' = <<>> /\ idx' = 0 /\ full' = NoDoc

ObsGone ==
    /\ listLog' = <<>> /\ fetchLog' = <<>> /\ created' = {} /\ erred' = "none"
    /\ outcome' = "none" /\ inv' = NoInv

\* Where in run_project the process is: before the first list call of an
\* invocation that added to pending, inside a page, or elsewhere.
Phase ==
    IF pc \in {"read", "loop", "list"} /\ listLog = <<>> /\ limitArg > 0
    THEN "after_add"
    ELSE IF pc \in {"issue", "fetch", "raw_tmp", "raw_replace"}
            \/ (pc \in {"save_tmp", "save_replace"} /\ ret = "issue")
    THEN "mid_page"
    ELSE "other"

\* The process is killed at its current position.  What it leaves in a .tmp
\* sibling is never read (every atomic_write rewrites the sibling before the
\* rename), so the model forgets it.
Dies ==
    /\ pc' = "off"
    /\ stateTmp' = NoFile
    /\ rawTmp' = [p \in Projects |-> [k \in Keys |-> NoFile]]
    /\ MemoryGone
    /\ ObsGone
    /\ prev' = IF Phase # "other" /\ limitArg > 0 /\ inv.pend0 = 0
               THEN [phase |-> Phase, saving |-> pc \in {"save_tmp", "save_replace"},
                     add |-> limitArg, new |-> Cardinality(created),
                     clean |-> inv.clean]
               ELSE [NoPrev EXCEPT !.phase = "other",
                                   !.saving = pc \in {"save_tmp", "save_replace"}]

\* ---------------------------------------------------------------- main.py
\* --limit values: small ones, and K + Surplus for a remote list of K records.
LimitChoices ==
    (0..MaxLimit) \cup {Len(remote[p]) + Surplus : p \in Listed}

PersistedPending(p) ==
    LET m == load_state(stateFile) IN IF p \in DOMAIN m THEN m[p].pending ELSE 0

\* main(): parse the arguments, build the Scraper (which loads the checkpoint;
\* main passes max_issues=None).
MainOn(lims, sizes, lists) ==
    /\ pc = "off"
    /\ \E lim \in lims, bs \in sizes, mi \in {NoCap}, pl \in lists :
        /\ \A i \in DOMAIN pl :
              \/ PersistedPending(pl[i]) + lim <= MaxPending
              \/ PersistedPending(pl[i]) = 0
        /\ projects' = pl
        /\ limitArg' = lim
        /\ batch_size' = bs
        /\ max_issues' = mi
    /\ state' = load_state(stateFile)
    /\ projIdx' = 1
    /\ pc' = "run"
    /\ UNCHANGED <<disk, env, ret, locals, obs, prev>>

MainWith(lims, sizes) == MainOn(lims, sizes, ProjectLists)

Main == MainWith(LimitChoices, 1..MaxBatch)

\* An artifact exists for some record at or beyond list position `from`.
ArtifactAhead(p, from) ==
    \E i \in (from + 1)..Len(remote[p]) :
        remote[p][i] # NoKey /\ rawFile[p][remote[p][i]].exists

\* line 68: the increased pending count is saved at once.
SkipAddSave == "read"

AfterAdd == "save_tmp"

\* Scraper.run, one iteration: run_project up to its first save.
RunProject ==
    /\ pc = "run"
    /\ projIdx <= Len(projects)
    /\ LET p == projects[projIdx]
           add == limitArg
           st1 == EnsureProjectState(state, p)
           st2 == IF add > 0
                  THEN [st1 EXCEPT ![p].pending = st1[p].pending + add]
                  ELSE st1
       IN  /\ project' = p
           /\ state' = st2
           /\ IF add > 0
              THEN pc' = AfterAdd /\ ret' = "read"
              ELSE pc' = "read" /\ ret' = ret
           /\ inv' = [proj |-> p, pend0 |-> st1[p].pending, cur0 |-> st1[p].start_at,
                      tot0 |-> st1[p].total_fetched,
                      clean |-> st1[p].pending = 0 /\ ~ArtifactAhead(p, st1[p].start_at),
                      fresh |-> p \notin DOMAIN state
                                /\ \A k \in Keys : ~rawFile[p][k].exists]
    /\ listLog' = <<>> /\ fetchLog' = <<>> /\ created' = {}
    /\ erred' = "none" /\ outcome' = "running"
    /\ UNCHANGED <<disk, env, args, projIdx, start_at, pending, total_fetched,
                   unlimited_mode, effective_batch, issues, to_process, idx, full,
                   prev>>

\* main() after Scraper.run: the process ends.
Exit ==
    /\ pc = "run"
    /\ projIdx > Len(projects)
    /\ pc' = "off"
    /\ MemoryGone
    /\ ObsGone
    /\ prev' = NoPrev
    /\ UNCHANGED <<disk, env>>

\* ------------------------------------------------------ Scraper.run_project
\* lines 70-75
NeverUnlimited(pe, mi) == FALSE

UnlimitedMode(pe, mi) == pe = 0 /\ mi = NoCap

\* line 70: the cursor the run resumes from.
StartAtZero(st, p) == 0

StartAt(st, p) == st[p].start_at

ReadCheckpoint ==
    /\ pc = "read"
    /\ start_at' = StartAt(state, project)
    /\ pending' = state[project].pending
    /\ total_fetched' = state[project].total_fetched
    /\ unlimited_mode' = UnlimitedMode(state[project].pending, max_issues)
    /\ pc' = "loop"
    /\ UNCHANGED <<disk, env, ret, args, projIdx, state, project, effective_batch,
                   issues, to_process, idx, full, obs, prev>>

\* lines 79-92: the page size to ask for, or 0 for "break".
Truthy(mi) == mi # NoCap /\ mi # 0

EffectiveBatchUncapped(unl, bs, pe, tf, mi) ==
    IF ~unl /\ pe = 0 THEN 0 ELSE bs

EffectiveBatch(unl, bs, pe, tf, mi) ==
    IF unl THEN bs
    ELSE LET eb0 == IF pe > 0 THEN Min(bs, pe) ELSE 0
             left == IF pe = 0 THEN mi - tf ELSE pe
             eb1 == IF Truthy(mi)
                    THEN (IF left <= 0 THEN 0
                          ELSE Min(IF eb0 # 0 THEN eb0 ELSE bs, Max(1, left)))
                    ELSE eb0
         IN  IF pe = 0 THEN 0 ELSE eb1

LoopHead ==
    /\ pc = "loop"
    /\ LET eb == EffectiveBatch(unlimited_mode, batch_size, pending,
                                total_fetched, max_issues)
       IN  IF eb = 0
           THEN pc' = "success" /\ effective_batch' = effective_batch
           ELSE pc' = "list" /\ effective_batch' = eb
    /\ UNCHANGED <<disk, env, ret, args, projIdx, state, project, start_at, pending,
                   total_fetched, unlimited_mode, issues, to_process, idx, full,
                   obs, prev>>

\* JiraClient.search_issues as the remote answers it: maxResults records from
\* startAt on.
Page(p, s, n) == SubSeq(remote[p], s + 1, Min(s + n, Len(remote[p])))

\* lines 98-100: an empty page ends the loop.
PageEndsRaises(res) == IF res = <<>> THEN "outer_except" ELSE "issue"

PageEnds(res) == IF res = <<>> THEN "success" ELSE "issue"

\* lines 102-104
ToProcess(iss, unl, pe) ==
    IF ~unl /\ pe > 0 THEN SubSeq(iss, 1, Min(pe, Len(iss))) ELSE iss

\* lines 94-104: the list call returns a page, or raises.
ListPage ==
    /\ pc = "list"
    /\ listLog' = Append(listLog, effective_batch)
    /\ \E ok \in BOOLEAN :
        IF ok
        THEN LET res == Page(project, start_at, effective_batch)
             IN  /\ issues' = res
                 /\ to_process' = ToProcess(res, unlimited_mode, pending)
                 /\ idx' = 1
                 /\ pc' = PageEnds(res)
                 /\ erred' = erred
        ELSE /\ erred' = "list"
             /\ pc' = "outer_except"
             /\ UNCHANGED <<issues, to_process, idx>>
    /\ UNCHANGED <<disk, env, ret, args, projIdx, state, project, start_at, pending,
                   total_fetched, unlimited_mode, effective_batch, full,
                   fetchLog, created, outcome, inv, prev>>

\* lines 116-117 and 125-126
KeepPending(pe) == pe

DecUnguarded(pe) == pe - 1

DecPending(pe) == IF pe > 0 THEN pe - 1 ELSE pe

\* lines 112-113: target_file.exists()
ExistsNever(p, key) == FALSE

Exists(p, key) == rawFile[p][key].exists

\* lines 106-118 and 142-146: the next summary of the page, up to the call it
\* needs; after the last one, the checkpoint of the page.
NextIssue ==
    /\ pc = "issue"
    /\ IF idx > Len(to_process)
       THEN /\ state' = WithEntry(state, project, start_at, pending,
                                  total_fetched, "running")
            /\ pc' = "save_tmp" /\ ret' = "after_page"
            /\ UNCHANGED <<start_at, pending, idx>>
       ELSE LET key == to_process[idx]
            IN  IF key = NoKey
                THEN /\ start_at' = start_at + 1
                     /\ idx' = idx + 1
                     /\ UNCHANGED <<pending, state, pc, ret>>
                ELSE IF Exists(project, key)
                THEN /\ start_at' = start_at + 1
                     /\ pending' = DecPending(pending)
                     /\ idx' = idx + 1
                     /\ UNCHANGED <<state, pc, ret>>
                ELSE /\ pc' = "fetch"
                     /\ UNCHANGED <<start_at, pending, idx, state, ret>>
    /\ UNCHANGED <<disk, env, args, projIdx, project, total_fetched, unlimited_mode,
                   effective_batch, issues, to_process, full, obs, prev>>

\* line 121: JiraClient.get_issue returns the document as it is now, or raises.
GetIssue ==
    /\ pc = "fetch"
    /\ fetchLog' = Append(fetchLog, to_process[idx])
    /\ \E ok \in BOOLEAN :
        IF ok
        THEN /\ full' = [key |-> to_process[idx], rev |-> remoteRev]
             /\ pc' = "raw_tmp"
             /\ erred' = erred
        ELSE /\ erred' = "fetch"
             /\ pc' = "inner_except"
             /\ full' = full
    /\ UNCHANGED <<disk, env, ret, args, projIdx, state, project, start_at, pending,
                   total_fetched, unlimited_mode, effective_batch, issues,
                   to_process, idx, listLog, created, outcome, inv, prev>>

\* Scraper._save_raw_issue, atomic_write line 10: the temporary file is written,
\* or the write is cut short: by the process dying, or by an I/O error raised
\* into run_project's handler.
RawWriteTmp ==
    /\ pc = "raw_tmp"
    /\ LET p == project
           k == full.key
       IN \E o \in AtomicWriteText(rawTmp[p][k], rawFile[p][k], DumpsDoc(full)),
             died \in BOOLEAN :
           /\ (o.done => ~died)
           /\ rawFile' = [rawFile EXCEPT ![p][k] = o.target]
           /\ IF o.done
              THEN /\ pc' = "raw_replace"
                   /\ rawTmp' = [rawTmp EXCEPT ![p][k] = o.tmp]
                   /\ UNCHANGED <<stateTmp, ret, args, projIdx, state, locals,
                                  obs, prev>>
              ELSE IF died
              THEN Dies
              ELSE /\ pc' = "inner_except"
                   /\ erred' = "persist"
                   /\ rawTmp' = [rawTmp EXCEPT ![p][k] = o.tmp]
                   /\ UNCHANGED <<stateTmp, ret, args, projIdx, state, locals,
                                  listLog, fetchLog, created, outcome, inv, prev>>
    /\ UNCHANGED <<stateFile, env>>

\* line 131: the checkpoint is saved after every record.
SkipRecordSave == "issue"

AfterRecord == "save_tmp"

\* atomic_write line 11 for the artifact, then lines 123-130.
RawReplace ==
    /\ pc = "raw_replace"
    /\ LET p == project
           k == full.key
           o == AtomicReplace(rawTmp[p][k], rawFile[p][k])
           pe == DecPending(pending)
       IN  /\ rawTmp' = [rawTmp EXCEPT ![p][k] = o.tmp]
           /\ rawFile' = [rawFile EXCEPT ![p][k] = o.target]
           /\ created' = created \cup {k}
           /\ start_at' = start_at + 1
           /\ total_fetched' = total_fetched + 1
           /\ pending' = pe
           /\ state' = WithEntry(state, p, start_at + 1, pe, total_fetched + 1, "running")
    /\ idx' = idx + 1
    /\ pc' = AfterRecord /\ ret' = "issue"
    /\ UNCHANGED <<stateFile, stateTmp, env, args, projIdx, project, unlimited_mode,
                   effective_batch, issues, to_process, full, listLog, fetchLog,
                   erred, outcome, inv, prev>>

\* lines 132-139: record the failure, save, re-raise.
InnerExcept ==
    /\ pc = "inner_except"
    /\ state' = WithEntry(state, project, start_at, pending, total_fetched, "failed")
    /\ pc' = "save_tmp" /\ ret' = "outer_except"
    /\ UNCHANGED <<disk, env, args, projIdx, locals, obs, prev>>

\* lines 167-173: record the failure, save; the handler ends without a raise.
OuterExceptRaises == "raise"

OuterExceptExit == "return"

OuterExcept ==
    /\ pc = "outer_except"
    /\ state' = WithEntry(state, project, start_at, pending, total_fetched, "failed")
    /\ pc' = "save_tmp" /\ ret' = OuterExceptExit
    /\ UNCHANGED <<disk, env, args, projIdx, locals, obs, prev>>

\* lines 148-154: TRUE when the loop is left after a page.
LeavesAfterPage(unl, pe, n, eb) == (~unl /\ pe = 0) \/ n < eb

AfterPage ==
    /\ pc = "after_page"
    /\ pc' = IF LeavesAfterPage(unlimited_mode, pending, Len(issues), effective_batch)
             THEN "success" ELSE "loop"
    /\ UNCHANGED <<disk, env, ret, args, projIdx, state, locals, obs, prev>>

\* line 157: the status of a clean loop exit.
StaysRunning == "running"

SuccessStatus == "success"

\* lines 157-163
Success ==
    /\ pc = "success"
    /\ state' = WithEntry(state, project, start_at, pending, total_fetched,
                          SuccessStatus)
    /\ pc' = "save_tmp" /\ ret' = "return"
    /\ UNCHANGED <<disk, env, args, projIdx, locals, obs, prev>>

\* Scraper.run, lines 181-183: the loop over self.projects goes on.
SkipsProject(i) == i + 2

NextProject(i) == i + 1

\* run_project hands control back: by returning to Scraper.run, or by an
\* exception that nothing up to main() catches.
Return ==
    /\ pc \in {"return", "raise"}
    /\ IF pc = "return"
       THEN /\ pc' = "run"
            /\ projIdx' = NextProject(projIdx)
            /\ outcome' = "returned"
            /\ ret' = "none"
            /\ project' = "none" /\ start_at' = 0 /\ pending' = 0
            /\ total_fetched' = 0 /\ unlimited_mode' = FALSE
            /\ effective_batch' = 0 /\ issues' = <<>> /\ to_process' = <<>>
            /\ idx' = 0 /\ full' = NoDoc
            /\ UNCHANGED <<args, state, prev>>
       ELSE /\ pc' = "off"
            /\ MemoryGone
            /\ outcome' = "raised"
            /\ prev' = NoPrev
    /\ UNCHANGED <<disk, env, listLog, fetchLog, created, erred, inv>>

\* ------------------------------------------- Scraper._save_state, in two steps
\* atomic_write line 10 for the checkpoint: written, or cut short by a kill.
SaveTmp ==
    /\ pc = "save_tmp"
    /\ \E o \in AtomicWriteText(stateTmp, stateFile, save_state_text(state)) :
        /\ stateFile' = o.target
        /\ IF o.done
           THEN /\ pc' = "save_replace"
                /\ stateTmp' = o.tmp
                /\ UNCHANGED <<rawTmp, ret, args, projIdx, state, locals, obs, prev>>
           ELSE Dies
    /\ UNCHANGED <<rawFile, env>>

\* atomic_write line 11 for the checkpoint.
SaveReplace ==
    /\ pc = "save_replace"
    /\ LET o == AtomicReplace(stateTmp, stateFile)
       IN  /\ stateTmp' = o.tmp
           /\ stateFile' = o.target
    /\ pc' = ret
    /\ ret' = "none"
    /\ UNCHANGED <<rawFile, rawTmp, env, args, projIdx, state, locals, obs, prev>>

\* ------------------------------------------------------------ environment
\* The process is killed between two steps.
Crash ==
    /\ pc # "off"
    /\ Dies
    /\ UNCHANGED <<stateFile, rawFile, env>>

\* Documents of the remote tracker are edited over time (here: between runs).
RemoteUpdate ==
    /\ pc = "off"
    /\ remoteRev < MaxRev
    /\ remoteRev' = remoteRev + 1
    /\ UNCHANGED <<disk, remote, client, transformer, workers, pc, ret, args, projIdx,
                   state, locals, obs, prev>>

Next ==
    \/ Main
    \/ RunProject
    \/ Exit
    \/ ReadCheckpoint
    \/ LoopHead
    \/ ListPage
    \/ NextIssue
    \/ GetIssue
    \/ RawWriteTmp
    \/ RawReplace
    \/ InnerExcept
    \/ OuterExcept
    \/ AfterPage
    \/ Success
    \/ Return
    \/ SaveTmp
    \/ SaveReplace
    \/ Crash

Spec == Init /\ [][Next]_vars

\* The same program against a remote whose documents are edited between runs.
NextRev == Next \/ RemoteUpdate

SpecRev == Init /\ [][NextRev]_vars

\* The DEMO scenario: five remote records, every process started with
\* --limit 3 --batch-size 2.
InitDemo ==
    /\ stateFile = NoFile /\ stateTmp = NoFile
    /\ rawFile = [p \in Projects |-> [k \in Keys |-> NoFile]]
    /\ rawTmp = [p \in Projects |-> [k \in Keys |-> NoFile]]
    /\ remote = [p \in Projects |-> IF p \in Listed THEN DemoRemote ELSE <<>>]
    /\ remoteRev = 1
    /\ InitProcess

MainDemo == MainWith({3}, {2})

NextDemo ==
    \/ MainDemo
    \/ RunProject
    \/ Exit
    \/ ReadCheckpoint
    \/ LoopHead
    \/ ListPage
    \/ NextIssue
    \/ GetIssue
    \/ RawWriteTmp
    \/ RawReplace
    \/ InnerExcept
    \/ OuterExcept
    \/ AfterPage
    \/ Success
    \/ Return
    \/ SaveTmp
    \/ SaveReplace
    \/ Crash

SpecDemo == InitDemo /\ [][NextDemo]_vars

\* ------------------------------------------------- a damaged checkpoint file
\* Between two processes the checkpoint file is damaged from outside: cut
\* short, replaced by JSON that is no mapping, or by bytes that do not decode.
DamagedTexts(text) == Truncations(text) \cup {JsonArray, Undecodable}

Damage ==
    /\ pc = "off"
    /\ stateFile.exists /\ WellFormed(stateFile.text)
    /\ \E t \in DamagedTexts(stateFile.text) :
        stateFile' = [exists |-> TRUE, text |-> t]
    /\ UNCHANGED <<stateTmp, rawFile, rawTmp, env, pc, ret, args, projIdx, state,
                   locals, obs, prev>>

NextDamaged == Next \/ Damage

SpecDamaged == Init /\ [][NextDamaged]_vars

\* -------------------------------------------- transformer.transform_issue
\* transform_projects, line 85: a raw issue document is read from its artifact.
ReadRaw ==
    /\ issue_data' \in RawIssues
    /\ record' = NoRecord
    /\ UNCHANGED <<disk, remote, remoteRev, client, workers, pc, ret, args, projIdx, state,
                   locals, obs, prev>>

\* transform_issue(issue_data)
TransformIssue ==
    /\ record = NoRecord
    /\ record' = transform_issue(issue_data)
    /\ UNCHANGED <<disk, remote, remoteRev, client, workers, issue_data, pc, ret, args,
                   projIdx, state, locals, obs, prev>>

NextTransform ==
    \/ ReadRaw
    \/ TransformIssue

SpecTransform == Init /\ [][NextTransform]_vars

\* --------------------------------------------------------- JiraClient._get
\* What one session.get of the loop can meet: a requests.RequestException, a
\* response with status 429, 5xx, another 4xx, or a 2xx whose body is JSON or
\* is not.  (The session's transport adapter makes its own retries inside one
\* session.get; an attempt here is one pass of the loop of _get.)
Responses == {"conn", "429", "5xx", "4xx", "json", "badjson"}

\* lines 116-121
OnRequestError(t) == IF t >= 5 THEN "raised" ELSE "running"

\* lines 124-134
On429Generic(t) == IF t >= 5 THEN "raised" ELSE "running"

On429Forever(t) == "running"

On429(t) == IF t >= 8 THEN "raised" ELSE "running"

\* lines 137-142
On5xx(t) == IF t >= 5 THEN "raised" ELSE "running"

\* lines 145-147: raise_for_status on a 4xx raises.
On4xxRetries(t) == "running"

On4xx(t) == "raised"

\* lines 150-156
OnBadJson(t) == IF t >= 3 THEN "raised" ELSE "running"

GetOutcome(resp, t) ==
    CASE resp = "conn" -> OnRequestError(t)
      [] resp = "429" -> On429(t)
      [] resp = "5xx" -> On5xx(t)
      [] resp = "4xx" -> On4xx(t)
      [] resp = "json" -> "returned"
      [] resp = "badjson" -> OnBadJson(t)

\* lines 107-110: a call begins.
GetBegins ==
    /\ result = "none"
    /\ tries' = 0 /\ met' = <<>>
    /\ result' = "running"
    /\ UNCHANGED <<disk, remote, remoteRev, transformer, workers, pc, ret, args, projIdx,
                   state, locals, obs, prev>>

\* lines 112-156: one pass of the loop.
GetAttempt ==
    /\ result = "running"
    /\ \E resp \in Responses :
        /\ tries' = tries + 1
        /\ met' = Append(met, resp)
        /\ result' = GetOutcome(resp, tries + 1)
    /\ UNCHANGED <<disk, remote, remoteRev, transformer, workers, pc, ret, args, projIdx,
                   state, locals, obs, prev>>

\* The call is over: it returned the parsed body, or raised.
GetEnds ==
    /\ result \in {"returned", "raised"}
    /\ tries' = 0 /\ met' = <<>>
    /\ result' = "none"
    /\ UNCHANGED <<disk, remote, remoteRev, transformer, workers, pc, ret, args, projIdx,
                   state, locals, obs, prev>>

NextGet ==
    \/ GetBegins
    \/ GetAttempt
    \/ GetEnds

\* Calls of _get, one after the other, against a remote that answers anything.
SpecGet == Init /\ [][NextGet]_vars

\* The same, where every session.get comes back (with a response, or with an
\* exception once REQUEST_TIMEOUT has passed) and every sleep ends.
SpecGetFair == SpecGet /\ WF_vars(GetAttempt)

\* ---------------------------------------------------------- two projects
\* main() is given both projects, each with a remote list of keyed records.
TwoLists == {[i \in 1..n |-> i] : n \in 1..MaxTwo}

InitTwo ==
    /\ stateFile = NoFile /\ stateTmp = NoFile
    /\ rawFile = [p \in Projects |-> [k \in Keys |-> NoFile]]
    /\ rawTmp = [p \in Projects |-> [k \in Keys |-> NoFile]]
    /\ remote \in [Projects -> TwoLists]
    /\ remoteRev = 1
    /\ InitProcess

MainTwo == MainOn(0..1, 1..MaxBatch, {AllOrder})

NextTwo ==
    \/ MainTwo
    \/ RunProject
    \/ Exit
    \/ ReadCheckpoint
    \/ LoopHead
    \/ ListPage
    \/ NextIssue
    \/ GetIssue
    \/ RawWriteTmp
    \/ RawReplace
    \/ InnerExcept
    \/ OuterExcept
    \/ AfterPage
    \/ Success
    \/ Return
    \/ SaveTmp
    \/ SaveReplace
    \/ Crash

SpecTwo == InitTwo /\ [][NextTwo]_vars

\* ------------------------------------------------------- unlimited mode
\* Every process is started with --limit 0: nothing is ever pending and each
\* invocation runs in unlimited mode.  A running process takes its next step
\* unless it is killed.
MainUnlimited == MainWith({0}, 1..MaxBatch)

Step ==
    \/ RunProject
    \/ ReadCheckpoint
    \/ LoopHead
    \/ ListPage
    \/ NextIssue
    \/ GetIssue
    \/ RawWriteTmp
    \/ RawReplace
    \/ InnerExcept
    \/ OuterExcept
    \/ AfterPage
    \/ Success
    \/ Return
    \/ SaveTmp
    \/ SaveReplace

NextUnlimited ==
    \/ MainUnlimited
    \/ Exit
    \/ Step
    \/ Crash

SpecUnlimited == Init /\ [][NextUnlimited]_vars /\ WF_vars(Step)

\* ------------------------------------------------------------ observations
\* The checkpoint entry a load of the checkpoint file gives for project p.
Persisted(p) ==
    LET m == load_state(stateFile) IN IF p \in DOMAIN m THEN m[p] ELSE DefaultEntry

RawCount(p) == Cardinality({k \in Keys : rawFile[p][k].exists})

\* run_project has just handed control back to Scraper.run.
Returned == pc = "run" /\ outcome = "returned"

Entry(s, pe, tf, status) ==
    [start_at |-> s, pending |-> pe, total_fetched |-> tf, last_status |-> status]

\* ------------------------------------------------------ concurrent workers
\* Two workers at once, each with a Scraper of its own on one project: two
\* invocations of main.py, each with --projects naming one project. Both use
\* the one STATE_FILE, and atomic_write's one temporary path beside it.
othersPar == <<rawTmp, remote, remoteRev, client, transformer, pc, ret, args,
               projIdx, state, locals, obs, prev>>

WorkerGoes(w, f) == workers' = [workers EXCEPT ![w] = f]

\* Scraper.__init__ line 32 and run_project lines 62-68: the whole checkpoint
\* file is loaded into self.state, the project's entry is ensured, and the
\* pending count is raised and saved when --limit is given.
WorkerStart ==
    \E w \in Workers, add \in 0..1 :
        /\ workers[w].pc = "new"
        /\ LET p == AllOrder[w]
               st == EnsureProjectState(load_state(stateFile), p)
           IN  WorkerGoes(w, [workers[w] EXCEPT
                   !.project = p,
                   !.add = add,
                   !.state = IF add > 0
                             THEN [st EXCEPT ![p].pending = @ + add]
                             ELSE st,
                   !.pc = IF add > 0 THEN AfterAdd ELSE "read",
                   !.ret = "read"])
        /\ UNCHANGED <<disk, othersPar>>

\* lines 70-75: the locals are read from the worker's own self.state.
WorkerRead ==
    \E w \in Workers :
        /\ workers[w].pc = "read"
        /\ LET e == workers[w].state[workers[w].project]
           IN  WorkerGoes(w, [workers[w] EXCEPT
                   !.start_at = StartAt(workers[w].state, workers[w].project),
                   !.pending = e.pending,
                   !.total_fetched = e.total_fetched,
                   !.unlimited_mode = UnlimitedMode(e.pending, NoCap),
                   !.pc = "loop"])
        /\ UNCHANGED <<disk, othersPar>>

\* lines 78-103, with a batch size of one: the batch is computed and the page
\* is listed.
WorkerLoop ==
    \E w \in Workers :
        /\ workers[w].pc = "loop"
        /\ LET me == workers[w]
               eb == EffectiveBatch(me.unlimited_mode, 1, me.pending,
                                    me.total_fetched, NoCap)
           IN  WorkerGoes(w, [me EXCEPT
                   !.pc = IF eb <= 0 THEN "success"
                          ELSE IF PageEnds(Page(me.project, me.start_at, eb)) = "success"
                          THEN "success"
                          ELSE "record"])
        /\ UNCHANGED <<disk, othersPar>>

\* lines 105-131: the one record of the page; an artifact that exists is
\* skipped, another is fetched and stored and the worker's entry is saved.
WorkerRecord ==
    \E w \in Workers :
        /\ workers[w].pc = "record"
        /\ LET me == workers[w]
               p == me.project
               k == remote[p][me.start_at + 1]
               pe == DecPending(me.pending)
           IN  IF Exists(p, k)
               THEN /\ WorkerGoes(w, [me EXCEPT
                           !.start_at = @ + 1, !.pending = pe, !.pc = "page"])
                    /\ rawFile' = rawFile
               ELSE /\ rawFile' = [rawFile EXCEPT ![p][k] =
                           [exists |-> TRUE,
                            text |-> DumpsDoc([key |-> k, rev |-> remoteRev])]]
                    /\ WorkerGoes(w, [me EXCEPT
                           !.start_at = @ + 1,
                           !.total_fetched = @ + 1,
                           !.pending = pe,
                           !.state = WithEntry(me.state, p, me.start_at + 1, pe,
                                               me.total_fetched + 1, "running"),
                           !.pc = AfterRecord,
                           !.ret = "page"])
        /\ UNCHANGED <<stateFile, stateTmp, othersPar>>

\* lines 141-146: the entry is saved after the page.
WorkerPage ==
    \E w \in Workers :
        /\ workers[w].pc = "page"
        /\ LET me == workers[w]
           IN  WorkerGoes(w, [me EXCEPT
                   !.state = WithEntry(me.state, me.project, me.start_at,
                                       me.pending, me.total_fetched, "running"),
                   !.pc = "save_tmp",
                   !.ret = "after_page"])
        /\ UNCHANGED <<disk, othersPar>>

\* lines 148-155: the loop is left or goes round.
WorkerAfterPage ==
    \E w \in Workers :
        /\ workers[w].pc = "after_page"
        /\ LET me == workers[w]
           IN  WorkerGoes(w, [me EXCEPT
                   !.pc = IF LeavesAfterPage(me.unlimited_mode, me.pending, 1, 1)
                          THEN "success" ELSE "loop"])
        /\ UNCHANGED <<disk, othersPar>>

\* lines 157-165: the entry is saved with the final status.
WorkerSuccess ==
    \E w \in Workers :
        /\ workers[w].pc = "success"
        /\ LET me == workers[w]
           IN  WorkerGoes(w, [me EXCEPT
                   !.state = WithEntry(me.state, me.project, me.start_at,
                                       me.pending, me.total_fetched, SuccessStatus),
                   !.pc = "save_tmp",
                   !.ret = "done"])
        /\ UNCHANGED <<disk, othersPar>>

\* utils.atomic_write line 10: the worker's whole self.state is written to the
\* temporary path, over whatever is there.
WorkerSaveTmp ==
    \E w \in Workers :
        /\ workers[w].pc = "save_tmp"
        /\ stateTmp' = [exists |-> TRUE, text |-> save_state_text(workers[w].state)]
        /\ WorkerGoes(w, [workers[w] EXCEPT !.pc = "save_replace"])
        /\ UNCHANGED <<stateFile, rawFile, othersPar>>

\* utils.atomic_write line 11: the temporary path is renamed onto the
\* checkpoint; once the other worker has renamed it away, FileNotFoundError is
\* raised: out of run_project from line 68 and from the handler, into the
\* handler of lines 167-173 from everywhere else.
WorkerSaveReplace ==
    \E w \in Workers :
        /\ workers[w].pc = "save_replace"
        /\ IF stateTmp.exists
           THEN /\ stateFile' = stateTmp
                /\ stateTmp' = NoFile
                /\ WorkerGoes(w, [workers[w] EXCEPT !.pc = workers[w].ret])
           ELSE /\ UNCHANGED <<stateFile, stateTmp>>
                /\ WorkerGoes(w, [workers[w] EXCEPT
                       !.pc = IF workers[w].ret \in {"read", "failed"}
                              THEN "raised" ELSE "except"])
        /\ UNCHANGED <<rawFile, othersPar>>

\* lines 167-173: the failure is recorded in the worker's entry and saved.
WorkerExcept ==
    \E w \in Workers :
        /\ workers[w].pc = "except"
        /\ LET me == workers[w]
           IN  WorkerGoes(w, [me EXCEPT
                   !.state = WithEntry(me.state, me.project, me.start_at,
                                       me.pending, me.total_fetched, "failed"),
                   !.pc = "save_tmp",
                   !.ret = "failed"])
        /\ UNCHANGED <<disk, othersPar>>

InitPar == InitTwo

NextPar ==
    \/ WorkerStart
    \/ WorkerRead
    \/ WorkerLoop
    \/ WorkerRecord
    \/ WorkerPage
    \/ WorkerAfterPage
    \/ WorkerSuccess
    \/ WorkerSaveTmp
    \/ WorkerSaveReplace
    \/ WorkerExcept

\* Both workers from an empty output directory, in every interleaving.
SpecPar == InitPar /\ [][NextPar]_vars

\* ----------------------------------------- main.py, reset_selected_projects
\* lines 70-71, open(STATE_FILE, "w") and json.dump: the file is truncated and written in
\* place; the outcomes are the completed write and every write cut short.
OverwriteText(data) ==
    {[target |-> [exists |-> TRUE, text |-> data], done |-> TRUE]}
    \cup {[target |-> [exists |-> TRUE, text |-> t], done |-> FALSE]
            : t \in Truncations(data)}

\* The mapping without the entries of the projects in pl.
WithoutProjects(data, pl) ==
    [q \in DOMAIN data \ {pl[i] : i \in DOMAIN pl} |-> data[q]]

\* What is remembered of a reset: the artifacts and the checkpoint entry the
\* project had when it began.
ResetBegan(p) ==
    [phase |-> "reset", saving |-> FALSE, add |-> 0, new |-> RawCount(p),
     clean |-> p \in DOMAIN load_state(stateFile)]

\* A project's name, character by character.
Chars(p) ==
    IF p = "DEMO" THEN <<"D", "E", "M", "O">> ELSE <<"D", "E", "M", "O", "2">>

\* line 38, folder_path.glob(f"{p}*"): the paths whose name begins with p.
Glob(p) ==
    {q \in Projects :
        /\ Len(Chars(p)) <= Len(Chars(q))
        /\ SubSeq(Chars(q), 1, Len(Chars(p))) = Chars(p)}

\* main() with --reset --projects and one of the lists.
ResetMainOn(lists) ==
    /\ pc = "off"
    /\ \E pl \in lists :
        /\ projects' = pl
        /\ prev' = ResetBegan(pl[1])
    /\ pc' = "reset_raw"
    /\ UNCHANGED <<disk, env, ret, projIdx, limitArg, batch_size, max_issues,
                   state, locals, obs>>

\* main() with --reset --projects P.
ResetMain == ResetMainOn(ProjectLists)

\* The process leaves a reset: finished, or killed where it is.
ResetEnds ==
    /\ pc' = "off"
    /\ MemoryGone
    /\ UNCHANGED <<obs, prev>>

\* lines 33-49: the glob over outputs/raw and shutil.rmtree of every folder it
\* yields, one file at a time in no particular order.
ResetUnlink ==
    /\ pc = "reset_raw"
    /\ LET ps == UNION {Glob(projects[i]) : i \in DOMAIN projects}
           left == {<<p, k>> \in ps \X Keys : rawFile[p][k].exists}
       IN  IF left = {}
           THEN /\ pc' = "reset_state"
                /\ UNCHANGED rawFile
           ELSE /\ \E f \in left :
                     rawFile' = [rawFile EXCEPT ![f[1]][f[2]] = NoFile]
                /\ pc' = pc
    /\ UNCHANGED <<stateFile, stateTmp, rawTmp, env, ret, args, projIdx, state,
                   locals, obs, prev>>

\* lines 51-67, 76-77: the checkpoint file is read and the entries are deleted from
\* the mapping; a missing file, a text that does not parse, or a mapping
\* without the entries ends the reset.
ResetLoad ==
    /\ pc = "reset_state"
    /\ IF stateFile.exists /\ WellFormed(stateFile.text)
          /\ \E i \in DOMAIN projects : projects[i] \in DOMAIN Parse(stateFile.text)
       THEN /\ state' = WithoutProjects(Parse(stateFile.text), projects)
            /\ pc' = "reset_write"
            /\ UNCHANGED <<disk, env, ret, args, projIdx, locals, obs, prev>>
       ELSE /\ ResetEnds
            /\ UNCHANGED <<disk, env>>

\* lines 69-71: the mapping is written over the checkpoint file.
ResetWrite ==
    /\ pc = "reset_write"
    /\ \E o \in OverwriteText(Dumps(state)) :
        stateFile' = o.target
    /\ ResetEnds
    /\ UNCHANGED <<stateTmp, rawFile, rawTmp, env>>

\* The process is killed inside a reset.
ResetKilled ==
    /\ pc \in {"reset_raw", "reset_state", "reset_write"}
    /\ ResetEnds
    /\ UNCHANGED <<disk, env>>

\* The program with resets between its runs.
NextReset ==
    \/ Next
    \/ ResetMain
    \/ ResetUnlink
    \/ ResetLoad
    \/ ResetWrite
    \/ ResetKilled

SpecReset == Init /\ [][NextReset]_vars

\* Two projects, run by main() one after the other with nothing to add and a
\* batch size of one, and resets that name one of them.
MainBoth == MainOn({0}, {1}, {AllOrder})

ResetOne == ResetMainOn({<<q>> : q \in Projects})

NextResetTwo ==
    \/ MainBoth
    \/ RunProject
    \/ Exit
    \/ ReadCheckpoint
    \/ LoopHead
    \/ ListPage
    \/ NextIssue
    \/ GetIssue
    \/ RawWriteTmp
    \/ RawReplace
    \/ InnerExcept
    \/ OuterExcept
    \/ AfterPage
    \/ Success
    \/ Return
    \/ SaveTmp
    \/ SaveReplace
    \/ Crash
    \/ ResetOne
    \/ ResetUnlink
    \/ ResetLoad
    \/ ResetWrite
    \/ ResetKilled

SpecResetTwo == InitTwo /\ [][NextResetTwo]_vars

C3_FailurePropagates ==
    (erred # "none" /\ outcome \in {"returned", "raised"})
    => /\ Persisted(inv.proj).last_status = "failed"
       /\ outcome = "raised"

\* What the code does instead: the failure is saved and run_project returns.
C3_FailureSwallowed ==
    (erred # "none" /\ outcome \in {"returned", "raised"})
    => /\ Persisted(inv.proj).last_status = "failed"
       /\ outcome = "returned"

\* Records beyond the cursor this invocation began at that had a key and no
\* artifact when it began.
UnfetchedAtStart(p) ==
    Cardinality({i \in (inv.cur0 + 1)..Len(remote[p]) :
        /\ remote[p][i] # NoKey
        /\ (~rawFile[p][remote[p][i]].exists \/ remote[p][i] \in created)})

\* The process before was killed right after saving a --limit N > 0 added to a
\* pending count of 0, before any list call; this one, started with --limit 0
\* where at least N records were still unfetched, has returned without failure.
AfterLostRun ==
    /\ Returned /\ erred = "none" /\ limitArg = 0
    /\ prev.phase = "after_add"
    /\ UnfetchedAtStart(inv.proj) >= prev.add

ResumedSameLimit ==
    /\ Returned /\ erred = "none"
    /\ prev.phase = "mid_page" /\ prev.clean
    /\ limitArg = prev.add

AvailFirst == prev.new + UnfetchedAtStart(inv.proj)

C6_CursorMonotone ==
    [][\A p \in Projects : Persisted(p)'.start_at >= Persisted(p).start_at]_vars

\* A later run, begun at a cursor above 0, has moved the cursor further.
C6_Witness ==
    /\ Returned /\ inv.cur0 > 0
    /\ Persisted(inv.proj).start_at > inv.cur0

AllKeyed(p) == \A i \in DOMAIN remote[p] : remote[p][i] # NoKey

\* An invocation from an empty checkpoint and store with add_pending = K +
\* Surplus on a remote list of exactly K records, each with its key.
SurplusRun ==
    /\ inv.proj # "none" /\ inv.fresh /\ erred = "none"
    /\ limitArg = Len(remote[inv.proj]) + Surplus
    /\ AllKeyed(inv.proj)

Pos(p, k) == CHOOSE i \in DOMAIN remote[p] : remote[p][i] = k

\* Artifacts this invocation created that lie beyond the persisted cursor.
Unreflected(p) == {k \in created : Pos(p, k) > Persisted(p).start_at}

\* C8: wherever the process is inside run_project, at most one artifact created
\* by this invocation lies beyond the persisted cursor, and the persisted
\* total_fetched lags the artifacts created by at most one.
C8_AtMostOneUnsaved ==
    (pc # "off" /\ inv.proj # "none")
    => /\ Cardinality(Unreflected(inv.proj)) <= 1
       /\ Cardinality(created)
            - (Persisted(inv.proj).total_fetched - inv.tot0) <= 1

\* The second artifact of a run is renamed, its checkpoint not yet saved.
C8_Witness ==
    /\ pc = "save_tmp" /\ ret = "issue"
    /\ Cardinality(created) = 2
    /\ Cardinality(Unreflected(inv.proj)) = 1

\* C9: no step, a kill inside a save included, leaves at the checkpoint path a
\* text that does not parse; what a load returns after the step is what it
\* returned before, or, after the rename, the complete mapping being saved.
C9_SaveAtomic ==
    [][/\ stateFile'.exists => WellFormed(stateFile'.text)
       /\ \/ load_state(stateFile)' = load_state(stateFile)
          \/ pc = "save_replace" /\ load_state(stateFile)' = state]_vars

\* A process was killed inside a save that had a checkpoint file to replace.
C9_Witness ==
    /\ pc = "off" /\ prev.saving
    /\ stateFile.exists

\* C10: a full-record fetch is issued, and an artifact written, only for a key
\* that has no artifact; an artifact, once it exists, is never changed.
C10_WriteOnce ==
    [][/\ \A p \in Projects, k \in Keys :
            rawFile[p][k].exists => rawFile'[p][k] = rawFile[p][k]
       /\ fetchLog' # fetchLog /\ fetchLog' # <<>>
            => ~rawFile[project][fetchLog'[Len(fetchLog')]].exists
       /\ pc \in {"raw_tmp", "raw_replace"}
            => ~rawFile[project][full.key].exists]_vars

\* An artifact of an older revision was found by a later run and passed over.
C10_Witness ==
    /\ pc = "issue" /\ remoteRev = 2
    /\ \E k \in Keys :
        /\ rawFile[project][k].exists
        /\ rawFile[project][k].text = DumpsDoc([key |-> k, rev |-> 1])
        /\ k \notin created
        /\ Pos(project, k) > inv.cur0
        /\ Pos(project, k) <= start_at

C11_KeyedBacked ==
    \A p \in Projects :
        \A i \in 1..Persisted(p).start_at :
            /\ i <= Len(remote[p])
            /\ remote[p][i] # NoKey => rawFile[p][remote[p][i]].exists

C12_TotalAtMost ==
    \A p \in Projects : Persisted(p).total_fetched <= RawCount(p)

\* Summaries with a key at the list positions a+1 .. b of project p.
KeyedBetween(p, a, b) ==
    Cardinality({i \in (a + 1)..b : i <= Len(remote[p]) /\ remote[p][i] # NoKey})

\* run_project is past reading the checkpoint into its locals.
InLoop ==
    /\ pc \notin {"off", "run", "read"}
    /\ ~(pc \in {"save_tmp", "save_replace"} /\ ret = "read")

\* C13: pending is never negative, in the locals, in Scraper.state and in the
\* checkpoint file.  In bounded mode it is what the invocation owed at its
\* start (persisted pending plus add_pending) less one for every keyed record
\* the cursor has passed, each of them stored or found stored; in unlimited
\* mode it stays 0.  The checkpoint file holds the same count for its cursor,
\* or still the count from before the invocation.
C13_PendingCounts ==
    /\ pending >= 0
    /\ \A p \in DOMAIN state : state[p].pending >= 0
    /\ \A p \in Projects : Persisted(p).pending >= 0
    /\ InLoop =>
        LET owed == inv.pend0 + limitArg
            e == Persisted(inv.proj)
        IN  /\ unlimited_mode <=> owed = 0
            /\ unlimited_mode => pending = 0 /\ e.pending = 0
            /\ ~unlimited_mode =>
                /\ pending = owed - KeyedBetween(project, inv.cur0, start_at)
                /\ \/ e.pending = owed - KeyedBetween(project, inv.cur0, e.start_at)
                   \/ e.start_at = inv.cur0 /\ e.pending = inv.pend0

\* A bounded run has cleared its pending count of 2 with one artifact found
\* stored and one stored by itself.
C13_Witness ==
    /\ InLoop /\ ~unlimited_mode
    /\ inv.pend0 + limitArg = 2 /\ pending = 0
    /\ KeyedBetween(project, inv.cur0, start_at) = 2
    /\ Cardinality(created) = 1

\* A reset of a project that had artifacts and a checkpoint entry has ended:
\* finished, or killed on the way.
AfterReset ==
    /\ pc = "off" /\ prev.phase = "reset"
    /\ prev.new > 0 /\ prev.clean

\* C14: after a reset of project P, finished or interrupted, either P's
\* artifacts and P's checkpoint entry are all removed, or all of them are
\* still there.
C14_ResetAllOrNothing ==
    AfterReset =>
        \A i \in DOMAIN ProjOrder :
            LET p == ProjOrder[i]
            IN  \/ RawCount(p) = 0 /\ p \notin DOMAIN load_state(stateFile)
                \/ RawCount(p) = prev.new /\ p \in DOMAIN load_state(stateFile)

\* C15: when run_project has returned, the persisted last_status is success or
\* failed; it is success when nothing raised, in which case the loop was left
\* with the pending count cleared or with the remote list exhausted, and failed
\* when the list call, the fetch or the artifact write raised.
C15_TerminalStatus ==
    Returned =>
        LET e == Persisted(inv.proj)
        IN  /\ e.last_status \in {"success", "failed"}
            /\ erred = "none" =>
                /\ e.last_status = "success"
                /\ \/ inv.pend0 + limitArg > 0 /\ e.pending = 0
                   \/ e.start_at = Len(remote[inv.proj])
            /\ erred # "none" => e.last_status = "failed"

\* A bounded run returned with its pending count cleared and records left on
\* the remote list.
C15_Witness ==
    /\ Returned /\ erred = "none"
    /\ Persisted(inv.proj).last_status = "success"
    /\ inv.pend0 + limitArg > 0 /\ Persisted(inv.proj).pending = 0
    /\ Persisted(inv.proj).start_at < Len(remote[inv.proj])

\* Every response the call has met is one of rs.
MetOnly(rs) == \A i \in DOMAIN met : met[i] \in rs

\* C16: a call of _get keeps retrying transient failures up to a bounded number
\* of attempts and then raises.  A call that met only connection errors and 5xx
\* responses is still running below 5 attempts and has raised at the 5th; a
\* 429 response makes the call raise only at its 8th attempt, whatever the
\* attempts before it met; no call makes more than 8 attempts.
C16_RetryBudgets ==
    /\ tries = Len(met) /\ tries <= 8
    /\ (met # <<>> /\ MetOnly({"conn", "5xx"})) =>
        /\ tries < 5 => result = "running"
        /\ tries >= 5 => tries = 5 /\ result = "raised"
    /\ (met # <<>> /\ met[Len(met)] = "429") =>
        /\ tries < 8 => result = "running"
        /\ tries >= 8 => result = "raised"

\* A call raised on a 429 at its 8th attempt after four other failures.
C16_Witness ==
    /\ result = "raised" /\ tries = 8
    /\ met[8] = "429"
    /\ \A i \in 1..4 : met[i] \in {"conn", "5xx"}

\* C17: a 4xx response other than 429 is the last thing a call meets: the call
\* raises on it and issues no further request.
C17_ClientErrorFatal ==
    \A i \in DOMAIN met :
        met[i] = "4xx" => i = Len(met) /\ result = "raised"

\* A call raised on a 4xx met after a retried failure.
C17_Witness ==
    /\ result = "raised" /\ Len(met) = 2
    /\ met[1] = "5xx" /\ met[2] = "4xx"

\* The checkpoint file is missing, or holds what is no complete JSON mapping.
Unusable(file) ==
    \/ ~file.exists
    \/ file.text \in {JsonArray, Undecodable}
    \/ file.text = <<>>
    \/ file.text[Len(file.text)].t # "close"

\* C18: a Scraper built on a missing, undecodable, cut short or non-mapping
\* checkpoint file holds the empty mapping, and run_project on it goes on from
\* the zero-value entry: cursor 0, total_fetched 0, last_status unknown, and
\* nothing pending but what this invocation adds.
C18_LoadFallsBack ==
    Unusable(stateFile) =>
        /\ load_state(stateFile) = EmptyMap
        /\ (pc = "run" /\ projIdx = 1) => state = EmptyMap
        /\ (pc \in {"save_tmp", "read"} /\ listLog = <<>>) =>
                state[project] = [DefaultEntry EXCEPT !.pending = limitArg]
        /\ (pc = "loop" /\ listLog = <<>>) =>
            /\ start_at = 0 /\ pending = limitArg /\ total_fetched = 0
            /\ state[project].last_status = "unknown"

\* A run reached its loop on a checkpoint file cut short behind an entry whose
\* cursor had moved.
C18_Witness ==
    /\ pc = "loop" /\ listLog = <<>>
    /\ stateFile.exists /\ Len(stateFile.text) = 2
    /\ stateFile.text[2].t = "entry" /\ stateFile.text[2].v.start_at > 0
    /\ start_at = 0

\* C19: the record transform_issue returns for a raw issue document (one that
\* has a key and a summary) has the issue's key as its "id" and the issue's
\* summary as its "title".
C19_IdIsKey ==
    (record # NoRecord /\ issue_data.key # None /\ issue_data.summary # None) =>
        /\ record.id = issue_data.key
        /\ record.title = issue_data.summary

\* What the code returns: "id" is the document's own "id" member, "key" its key,
\* and "title" its summary, or "" for a missing or null one.
C19_IdIsId ==
    record # NoRecord =>
        /\ record.id = issue_data.id
        /\ record.key = issue_data.key
        /\ record.title = Or(issue_data.summary, "")

\* C20: the step that issues the first list request of an invocation with
\* add_pending > 0 starts from a checkpoint file that already holds the
\* increased pending count; no fetch is issued before the first list request.
C20_AddSavedFirst ==
    [][(limitArg > 0 /\ listLog = <<>> /\ listLog' # <<>>)
        => /\ Persisted(project).pending = inv.pend0 + limitArg
           /\ Persisted(project).start_at = inv.cur0
           /\ fetchLog = <<>>]_vars

\* The first list request of an invocation that added 1 to a pending count
\* left by an earlier one.
C20_Witness ==
    /\ Len(listLog) = 1 /\ fetchLog = <<>>
    /\ limitArg = 1 /\ inv.pend0 > 0
    /\ Persisted(inv.proj).pending = inv.pend0 + 1

\* An invocation in unlimited mode, on a remote list whose records all carry
\* their key, has returned without a failure of the client.
UnlimitedDone ==
    /\ Returned /\ erred = "none"
    /\ inv.pend0 + limitArg = 0
    /\ AllKeyed(inv.proj)

\* What C21 says of such an invocation: every record of the remote list has
\* its artifact, the checkpoint is {cursor K, pending 0, success}, and every
\* page was asked for with the configured batch size.
BackfillComplete ==
    LET p == inv.proj
        e == Persisted(p)
    IN  /\ \A i \in DOMAIN remote[p] : rawFile[p][remote[p][i]].exists
        /\ e.start_at = Len(remote[p])
        /\ e.pending = 0
        /\ e.last_status = "success"
        /\ \A i \in DOMAIN listLog : listLog[i] = batch_size

C22_EachProjectInOrder ==
    /\ [](pc \notin {"off", "run"} =>
            /\ projIdx \in 1..Len(projects)
            /\ project = projects[projIdx]
            /\ inv.proj = project)
    /\ []((pc = "run" /\ projIdx <= Len(projects)) => ENABLED RunProject)
    /\ [][/\ (pc = "off" /\ pc' = "run") => projIdx' = 1
          /\ (pc = "run" /\ pc' \notin {"run", "off"}) =>
                /\ projIdx' = projIdx
                /\ project' = projects[projIdx]
                /\ state'[project'].pending = inv'.pend0 + limitArg
          /\ (pc \in {"return", "raise"} /\ outcome' # "none") =>
                /\ pc' = "run"
                /\ projIdx' = projIdx + 1
          /\ (pc \notin {"off", "return", "raise"} /\ pc' # "off") =>
                projIdx' = projIdx]_vars

\* The second project's run is in its loop after the first project's run
\* failed.
C22_Witness ==
    /\ pc = "loop" /\ projIdx = 2 /\ project = AllOrder[2]
    /\ limitArg = 1
    /\ Persisted(AllOrder[1]).last_status = "failed"
    /\ Persisted(AllOrder[2]).pending = 1

\* How many of the responses the call has met are r.
Count(r) == Cardinality({i \in DOMAIN met : met[i] = r})

\* C23: a call does not raise on the first response of it whose body is no
\* JSON: such a response is retried, and the call raises on one only when
\* earlier malformed responses have used up the retries allowed for them.
C23_MalformedRetried ==
    (result = "raised" /\ met[Len(met)] = "badjson") => Count("badjson") > 1

\* What the code keeps instead: a malformed response raises exactly when it is
\* met at the third or a later attempt of the call, whatever the earlier
\* attempts met.
C23_MalformedByAttempt ==
    (met # <<>> /\ met[Len(met)] = "badjson") =>
        (result = "raised" <=> tries >= 3)

\* C26: a call of _get makes at most 8 attempts, the 8th ending it whatever it
\* meets, and every call that has begun comes to return or to raise.
C26_GetTerminates ==
    /\ [](tries <= 8 /\ (tries = 8 => result # "running"))
    /\ [](result = "running" => <>(result \in {"returned", "raised"}))

\* A call that met nothing but 429 responses raised at its 8th attempt.
C26_Witness ==
    /\ result = "raised" /\ tries = 8
    /\ MetOnly({"429"})

\* Both workers have run to their end.
ParDone == \A w \in Workers : workers[w].pc \in {"done", "failed", "raised"}

\* What one worker alone leaves, run from an empty output directory.
SequentialCount(w) ==
    IF workers[w].add = 0
    THEN Len(remote[AllOrder[w]])
    ELSE Min(workers[w].add, Len(remote[AllOrder[w]]))

SequentialEntry(w) ==
    Entry(SequentialCount(w),
          IF workers[w].add = 0 THEN 0 ELSE workers[w].add - SequentialCount(w),
          SequentialCount(w), "success")

\* C24: two projects run at once by two workers, each with its own Scraper, end
\* with each project's checkpoint entry and stored artifacts equal to what the
\* project run alone leaves.
C24_ProjectsIndependent ==
    ParDone =>
        \A w \in Workers :
            /\ Persisted(AllOrder[w]) = SequentialEntry(w)
            /\ RawCount(AllOrder[w]) = SequentialCount(w)

\* The stored artifacts alone are those of the runs one after the other.
C24_ArtifactsIndependent ==
    ParDone => \A w \in Workers :
        workers[w].pc = "done" => RawCount(AllOrder[w]) = SequentialCount(w)

\* A reset is under way, for the projects in `projects`.
Resetting == pc \in {"reset_raw", "reset_state", "reset_write"}

Named == {projects[i] : i \in DOMAIN projects}

\* C25: no step of a reset of the named projects changes the raw artifacts or
\* the checkpoint entry of a project that is not named, a project whose key
\* begins with a named project's key included.
C25_ResetFrame ==
    [][Resetting =>
        \A q \in Projects \ Named :
            /\ rawFile'[q] = rawFile[q]
            /\ Persisted(q)' = Persisted(q)]_vars

\* The checkpoint edit deletes by exact key: as long as the rewritten file is
\* whole, the entries of the other projects stay.
C25_EntriesKept ==
    [][(Resetting /\ WellFormed(stateFile'.text)) =>
        \A q \in Projects \ Named : Persisted(q)' = Persisted(q)]_vars

\* A reset never touches the artifacts of a project whose key does not begin
\* with a named project's key.
C25_OthersKept ==
    [][Resetting =>
        \A q \in Projects \ UNION {Glob(p) : p \in Named} :
            rawFile'[q] = rawFile[q]]_vars

====
